---------------------------- MODULE Spec2Model ----------------------------
(***************************************************************************)
(* A model of app.py, the Netflix chatbot: extract_filters, filter_data,   *)
(* the semantic fallback ranking inside chat, build_prompt, query_mistral  *)
(* and chat itself.                                                        *)
(*                                                                         *)
(* Text is modelled character by character: a Python str is a sequence of  *)
(* one-character strings.  The fixed pieces of the f-string templates are  *)
(* kept as single atoms of that sequence (an atom is longer than one       *)
(* character, so it can never be confused with user text).                 *)
(***************************************************************************)
EXTENDS Integers, Sequences, FiniteSets, TLC

VARIABLES
    df,           \* the catalog: a sequence of rows (module global, line 23)
    embeddings,   \* one vector per row of df (module global, line 29)
    argsort_ties, \* how this build's np.argsort orders equal keys (line 110)
    startup,      \* history: the values of df and embeddings after loading
    pc,           \* per caller: the position inside chat
    query,        \* per caller: chat's argument
    filters,      \* per caller: chat's local `filters`
    filtered,     \* per caller: chat's local `filtered` (row positions of df)
    prompt,       \* per caller: chat's local `prompt`
    response,     \* per caller: chat's local `response`
    ollama,       \* per caller: what the ollama subprocess did in this call
    trace,        \* history, per caller: the steps taken by this invocation
    args,         \* the argument of a function applied on its own
    ret           \* its result

vars == <<df, embeddings, argsort_ties, startup, pc, query, filters,
          filtered, prompt, response, ollama, trace, args, ret>>

-----------------------------------------------------------------------------
(* Bounds of the model.                                                    *)

\* a query is the concatenation of at most MaxFrags fragments
MaxFrags == 4
\* rows of a catalog drawn for chat
MaxCatalog == 2
\* rows of a catalog drawn for filter_data and build_prompt on their own
MaxRows == 4
\* rows of the embedding matrix drawn for the ranking alone
MaxRank == 6

-----------------------------------------------------------------------------
(* Python values.                                                          *)

\* Python's None.  Its one element is not a single character, so it differs
\* from every str of the model, the empty str included.
None == <<"None">>

\* truth value of an optional str: None and "" are falsy (lines 65-71)
Truthy(x) == x # None /\ x # <<>>

\* The characters of the model: printable ASCII, the white space of
\* str.isspace() that a string of this language can hold, the Latin-1
\* Supplement and the Greek block, less "`", which a string of this language cannot hold, and less the seven
\* characters whose lower-case
\* or title-case image lies outside (U+00FF, U+0390, U+03B0, U+03F3, U+03FD,
\* U+03FE, U+03FF).  The tables below are those of the Unicode database that
\* str and re consult, restricted to this alphabet.
Alphabet ==
    {
      "\t", "\n", "", "\f", "\r", "", "", "", "", " ", "!", "\"",
      "#", "$", "%", "&", "'", "(", ")", "*", "+", ",", "-", ".",
      "/", "0", "1", "2", "3", "4", "5", "6", "7", "8", "9", ":",
      ";", "<", "=", ">", "?", "@", "A", "B", "C", "D", "E", "F",
      "G", "H", "I", "J", "K", "L", "M", "N", "O", "P", "Q", "R",
      "S", "T", "U", "V", "W", "X", "Y", "Z", "[", "\\", "]", "^",
      "_", "a", "b", "c", "d", "e", "f", "g", "h", "i", "j", "k",
      "l", "m", "n", "o", "p", "q", "r", "s", "t", "u", "v", "w",
      "x", "y", "z", "{", "|", "}", "~", "", " ", "¡", "¢", "£",
      "¤", "¥", "¦", "§", "¨", "©", "ª", "«", "¬", "­", "®", "¯",
      "°", "±", "²", "³", "´", "µ", "¶", "·", "¸", "¹", "º", "»",
      "¼", "½", "¾", "¿", "À", "Á", "Â", "Ã", "Ä", "Å", "Æ", "Ç",
      "È", "É", "Ê", "Ë", "Ì", "Í", "Î", "Ï", "Ð", "Ñ", "Ò", "Ó",
      "Ô", "Õ", "Ö", "×", "Ø", "Ù", "Ú", "Û", "Ü", "Ý", "Þ", "ß",
      "à", "á", "â", "ã", "ä", "å", "æ", "ç", "è", "é", "ê", "ë",
      "ì", "í", "î", "ï", "ð", "ñ", "ò", "ó", "ô", "õ", "ö", "÷",
      "ø", "ù", "ú", "û", "ü", "ý", "þ", "΄", "΅", "Ά", "·", "Έ",
      "Ή", "Ί", "Ό", "Ύ", "Ώ", "Α", "Β", "Γ", "Δ", "Ε", "Ζ", "Η",
      "Θ", "Ι", "Κ", "Λ", "Μ", "Ν", "Ξ", "Ο", "Π", "Ρ", "Σ", "Τ",
      "Υ", "Φ", "Χ", "Ψ", "Ω", "Ϊ", "Ϋ", "ά", "έ", "ή", "ί", "α",
      "β", "γ", "δ", "ε", "ζ", "η", "θ", "ι", "κ", "λ", "μ", "ν",
      "ξ", "ο", "π", "ρ", "ς", "σ", "τ", "υ", "φ", "χ", "ψ", "ω",
      "ϊ", "ϋ", "ό", "ύ", "ώ", "Ϗ", "ϐ", "ϑ", "ϒ", "ϓ", "ϔ", "ϕ",
      "ϖ", "ϗ", "Ϙ", "ϙ", "Ϛ", "ϛ", "Ϝ", "ϝ", "Ϟ", "ϟ", "Ϡ", "ϡ",
      "Ϣ", "ϣ", "Ϥ", "ϥ", "Ϧ", "ϧ", "Ϩ", "ϩ", "Ϫ", "ϫ", "Ϭ", "ϭ",
      "Ϯ", "ϯ", "ϰ", "ϱ", "ϲ", "ϴ", "ϵ", "϶", "Ϸ", "ϸ", "Ϲ", "Ϻ",
      "ϻ", "ϼ", " " }

\* a character of the alphabet; about any other character the model says
\* nothing
Ch(c) == CASE c \in Alphabet -> c

Digits == <<"0", "1", "2", "3", "4", "5", "6", "7", "8", "9">>

InSeq(c, s) == \E i \in 1..Len(s) : s[i] = c

\* characters with the property Cased: str.title() lower-cases the character
\* that follows one of them
Cased ==
    {
      "A", "B", "C", "D", "E", "F", "G", "H", "I", "J", "K", "L",
      "M", "N", "O", "P", "Q", "R", "S", "T", "U", "V", "W", "X",
      "Y", "Z", "a", "b", "c", "d", "e", "f", "g", "h", "i", "j",
      "k", "l", "m", "n", "o", "p", "q", "r", "s", "t", "u", "v",
      "w", "x", "y", "z", "ª", "µ", "º", "À", "Á", "Â", "Ã", "Ä",
      "Å", "Æ", "Ç", "È", "É", "Ê", "Ë", "Ì", "Í", "Î", "Ï", "Ð",
      "Ñ", "Ò", "Ó", "Ô", "Õ", "Ö", "Ø", "Ù", "Ú", "Û", "Ü", "Ý",
      "Þ", "ß", "à", "á", "â", "ã", "ä", "å", "æ", "ç", "è", "é",
      "ê", "ë", "ì", "í", "î", "ï", "ð", "ñ", "ò", "ó", "ô", "õ",
      "ö", "ø", "ù", "ú", "û", "ü", "ý", "þ", "Ά", "Έ", "Ή", "Ί",
      "Ό", "Ύ", "Ώ", "Α", "Β", "Γ", "Δ", "Ε", "Ζ", "Η", "Θ", "Ι",
      "Κ", "Λ", "Μ", "Ν", "Ξ", "Ο", "Π", "Ρ", "Σ", "Τ", "Υ", "Φ",
      "Χ", "Ψ", "Ω", "Ϊ", "Ϋ", "ά", "έ", "ή", "ί", "α", "β", "γ",
      "δ", "ε", "ζ", "η", "θ", "ι", "κ", "λ", "μ", "ν", "ξ", "ο",
      "π", "ρ", "ς", "σ", "τ", "υ", "φ", "χ", "ψ", "ω", "ϊ", "ϋ",
      "ό", "ύ", "ώ", "Ϗ", "ϐ", "ϑ", "ϒ", "ϓ", "ϔ", "ϕ", "ϖ", "ϗ",
      "Ϙ", "ϙ", "Ϛ", "ϛ", "Ϝ", "ϝ", "Ϟ", "ϟ", "Ϡ", "ϡ", "Ϣ", "ϣ",
      "Ϥ", "ϥ", "Ϧ", "ϧ", "Ϩ", "ϩ", "Ϫ", "ϫ", "Ϭ", "ϭ", "Ϯ", "ϯ",
      "ϰ", "ϱ", "ϲ", "ϴ", "ϵ", "Ϸ", "ϸ", "Ϲ", "Ϻ", "ϻ", "ϼ" }

IsCased(c) == Ch(c) \in Cased

\* characters with the property Case_Ignorable, skipped by the final-sigma
\* rule of str.lower()
CaseIgnorable ==
    {
      "'", ".", ":", "^", "¨", "­", "¯", "´", "·", "¸", "΄", "΅",
      "·" }

IsCaseIgnorable(c) == Ch(c) \in CaseIgnorable

\* the regular expression class \w of a str pattern: alphanumerics and "_"
WordChars ==
    {
      "0", "1", "2", "3", "4", "5", "6", "7", "8", "9", "A", "B",
      "C", "D", "E", "F", "G", "H", "I", "J", "K", "L", "M", "N",
      "O", "P", "Q", "R", "S", "T", "U", "V", "W", "X", "Y", "Z",
      "_", "a", "b", "c", "d", "e", "f", "g", "h", "i", "j", "k",
      "l", "m", "n", "o", "p", "q", "r", "s", "t", "u", "v", "w",
      "x", "y", "z", "ª", "²", "³", "µ", "¹", "º", "¼", "½", "¾",
      "À", "Á", "Â", "Ã", "Ä", "Å", "Æ", "Ç", "È", "É", "Ê", "Ë",
      "Ì", "Í", "Î", "Ï", "Ð", "Ñ", "Ò", "Ó", "Ô", "Õ", "Ö", "Ø",
      "Ù", "Ú", "Û", "Ü", "Ý", "Þ", "ß", "à", "á", "â", "ã", "ä",
      "å", "æ", "ç", "è", "é", "ê", "ë", "ì", "í", "î", "ï", "ð",
      "ñ", "ò", "ó", "ô", "õ", "ö", "ø", "ù", "ú", "û", "ü", "ý",
      "þ", "Ά", "Έ", "Ή", "Ί", "Ό", "Ύ", "Ώ", "Α", "Β", "Γ", "Δ",
      "Ε", "Ζ", "Η", "Θ", "Ι", "Κ", "Λ", "Μ", "Ν", "Ξ", "Ο", "Π",
      "Ρ", "Σ", "Τ", "Υ", "Φ", "Χ", "Ψ", "Ω", "Ϊ", "Ϋ", "ά", "έ",
      "ή", "ί", "α", "β", "γ", "δ", "ε", "ζ", "η", "θ", "ι", "κ",
      "λ", "μ", "ν", "ξ", "ο", "π", "ρ", "ς", "σ", "τ", "υ", "φ",
      "χ", "ψ", "ω", "ϊ", "ϋ", "ό", "ύ", "ώ", "Ϗ", "ϐ", "ϑ", "ϒ",
      "ϓ", "ϔ", "ϕ", "ϖ", "ϗ", "Ϙ", "ϙ", "Ϛ", "ϛ", "Ϝ", "ϝ", "Ϟ",
      "ϟ", "Ϡ", "ϡ", "Ϣ", "ϣ", "Ϥ", "ϥ", "Ϧ", "ϧ", "Ϩ", "ϩ", "Ϫ",
      "ϫ", "Ϭ", "ϭ", "Ϯ", "ϯ", "ϰ", "ϱ", "ϲ", "ϴ", "ϵ", "Ϸ", "ϸ",
      "Ϲ", "Ϻ", "ϻ", "ϼ" }

\* the regular expression class \d of a str pattern: decimal digits
IsDigit(c) == InSeq(Ch(c), Digits)
IsWord(c) == Ch(c) \in WordChars

\* lower-case mapping of the characters it changes
LowerTable ==
    {
      <<"A", "a">>, <<"B", "b">>, <<"C", "c">>, <<"D", "d">>, <<"E", "e">>, <<"F", "f">>,
      <<"G", "g">>, <<"H", "h">>, <<"I", "i">>, <<"J", "j">>, <<"K", "k">>, <<"L", "l">>,
      <<"M", "m">>, <<"N", "n">>, <<"O", "o">>, <<"P", "p">>, <<"Q", "q">>, <<"R", "r">>,
      <<"S", "s">>, <<"T", "t">>, <<"U", "u">>, <<"V", "v">>, <<"W", "w">>, <<"X", "x">>,
      <<"Y", "y">>, <<"Z", "z">>, <<"À", "à">>, <<"Á", "á">>, <<"Â", "â">>, <<"Ã", "ã">>,
      <<"Ä", "ä">>, <<"Å", "å">>, <<"Æ", "æ">>, <<"Ç", "ç">>, <<"È", "è">>, <<"É", "é">>,
      <<"Ê", "ê">>, <<"Ë", "ë">>, <<"Ì", "ì">>, <<"Í", "í">>, <<"Î", "î">>, <<"Ï", "ï">>,
      <<"Ð", "ð">>, <<"Ñ", "ñ">>, <<"Ò", "ò">>, <<"Ó", "ó">>, <<"Ô", "ô">>, <<"Õ", "õ">>,
      <<"Ö", "ö">>, <<"Ø", "ø">>, <<"Ù", "ù">>, <<"Ú", "ú">>, <<"Û", "û">>, <<"Ü", "ü">>,
      <<"Ý", "ý">>, <<"Þ", "þ">>, <<"Ά", "ά">>, <<"Έ", "έ">>, <<"Ή", "ή">>, <<"Ί", "ί">>,
      <<"Ό", "ό">>, <<"Ύ", "ύ">>, <<"Ώ", "ώ">>, <<"Α", "α">>, <<"Β", "β">>, <<"Γ", "γ">>,
      <<"Δ", "δ">>, <<"Ε", "ε">>, <<"Ζ", "ζ">>, <<"Η", "η">>, <<"Θ", "θ">>, <<"Ι", "ι">>,
      <<"Κ", "κ">>, <<"Λ", "λ">>, <<"Μ", "μ">>, <<"Ν", "ν">>, <<"Ξ", "ξ">>, <<"Ο", "ο">>,
      <<"Π", "π">>, <<"Ρ", "ρ">>, <<"Σ", "σ">>, <<"Τ", "τ">>, <<"Υ", "υ">>, <<"Φ", "φ">>,
      <<"Χ", "χ">>, <<"Ψ", "ψ">>, <<"Ω", "ω">>, <<"Ϊ", "ϊ">>, <<"Ϋ", "ϋ">>, <<"Ϗ", "ϗ">>,
      <<"Ϙ", "ϙ">>, <<"Ϛ", "ϛ">>, <<"Ϝ", "ϝ">>, <<"Ϟ", "ϟ">>, <<"Ϡ", "ϡ">>, <<"Ϣ", "ϣ">>,
      <<"Ϥ", "ϥ">>, <<"Ϧ", "ϧ">>, <<"Ϩ", "ϩ">>, <<"Ϫ", "ϫ">>, <<"Ϭ", "ϭ">>, <<"Ϯ", "ϯ">>,
      <<"ϴ", "θ">>, <<"Ϸ", "ϸ">>, <<"Ϲ", "ϲ">>, <<"Ϻ", "ϻ">> }

LowerMap == [c \in {p[1] : p \in LowerTable} |-> (CHOOSE p \in LowerTable : p[1] = c)[2]]

\* lower case of one character on its own
LowerChar(c) == IF Ch(c) \in DOMAIN LowerMap THEN LowerMap[c] ELSE c

\* title-case mapping of the characters it changes; the image of a character
\* can be two characters
TitleTable ==
    {
      <<"a", <<"A">>>>, <<"b", <<"B">>>>, <<"c", <<"C">>>>, <<"d", <<"D">>>>, <<"e", <<"E">>>>, <<"f", <<"F">>>>,
      <<"g", <<"G">>>>, <<"h", <<"H">>>>, <<"i", <<"I">>>>, <<"j", <<"J">>>>, <<"k", <<"K">>>>, <<"l", <<"L">>>>,
      <<"m", <<"M">>>>, <<"n", <<"N">>>>, <<"o", <<"O">>>>, <<"p", <<"P">>>>, <<"q", <<"Q">>>>, <<"r", <<"R">>>>,
      <<"s", <<"S">>>>, <<"t", <<"T">>>>, <<"u", <<"U">>>>, <<"v", <<"V">>>>, <<"w", <<"W">>>>, <<"x", <<"X">>>>,
      <<"y", <<"Y">>>>, <<"z", <<"Z">>>>, <<"µ", <<"Μ">>>>, <<"ß", <<"S", "s">>>>, <<"à", <<"À">>>>, <<"á", <<"Á">>>>,
      <<"â", <<"Â">>>>, <<"ã", <<"Ã">>>>, <<"ä", <<"Ä">>>>, <<"å", <<"Å">>>>, <<"æ", <<"Æ">>>>, <<"ç", <<"Ç">>>>,
      <<"è", <<"È">>>>, <<"é", <<"É">>>>, <<"ê", <<"Ê">>>>, <<"ë", <<"Ë">>>>, <<"ì", <<"Ì">>>>, <<"í", <<"Í">>>>,
      <<"î", <<"Î">>>>, <<"ï", <<"Ï">>>>, <<"ð", <<"Ð">>>>, <<"ñ", <<"Ñ">>>>, <<"ò", <<"Ò">>>>, <<"ó", <<"Ó">>>>,
      <<"ô", <<"Ô">>>>, <<"õ", <<"Õ">>>>, <<"ö", <<"Ö">>>>, <<"ø", <<"Ø">>>>, <<"ù", <<"Ù">>>>, <<"ú", <<"Ú">>>>,
      <<"û", <<"Û">>>>, <<"ü", <<"Ü">>>>, <<"ý", <<"Ý">>>>, <<"þ", <<"Þ">>>>, <<"ά", <<"Ά">>>>, <<"έ", <<"Έ">>>>,
      <<"ή", <<"Ή">>>>, <<"ί", <<"Ί">>>>, <<"α", <<"Α">>>>, <<"β", <<"Β">>>>, <<"γ", <<"Γ">>>>, <<"δ", <<"Δ">>>>,
      <<"ε", <<"Ε">>>>, <<"ζ", <<"Ζ">>>>, <<"η", <<"Η">>>>, <<"θ", <<"Θ">>>>, <<"ι", <<"Ι">>>>, <<"κ", <<"Κ">>>>,
      <<"λ", <<"Λ">>>>, <<"μ", <<"Μ">>>>, <<"ν", <<"Ν">>>>, <<"ξ", <<"Ξ">>>>, <<"ο", <<"Ο">>>>, <<"π", <<"Π">>>>,
      <<"ρ", <<"Ρ">>>>, <<"ς", <<"Σ">>>>, <<"σ", <<"Σ">>>>, <<"τ", <<"Τ">>>>, <<"υ", <<"Υ">>>>, <<"φ", <<"Φ">>>>,
      <<"χ", <<"Χ">>>>, <<"ψ", <<"Ψ">>>>, <<"ω", <<"Ω">>>>, <<"ϊ", <<"Ϊ">>>>, <<"ϋ", <<"Ϋ">>>>, <<"ό", <<"Ό">>>>,
      <<"ύ", <<"Ύ">>>>, <<"ώ", <<"Ώ">>>>, <<"ϐ", <<"Β">>>>, <<"ϑ", <<"Θ">>>>, <<"ϕ", <<"Φ">>>>, <<"ϖ", <<"Π">>>>,
      <<"ϗ", <<"Ϗ">>>>, <<"ϙ", <<"Ϙ">>>>, <<"ϛ", <<"Ϛ">>>>, <<"ϝ", <<"Ϝ">>>>, <<"ϟ", <<"Ϟ">>>>, <<"ϡ", <<"Ϡ">>>>,
      <<"ϣ", <<"Ϣ">>>>, <<"ϥ", <<"Ϥ">>>>, <<"ϧ", <<"Ϧ">>>>, <<"ϩ", <<"Ϩ">>>>, <<"ϫ", <<"Ϫ">>>>, <<"ϭ", <<"Ϭ">>>>,
      <<"ϯ", <<"Ϯ">>>>, <<"ϰ", <<"Κ">>>>, <<"ϱ", <<"Ρ">>>>, <<"ϲ", <<"Ϲ">>>>, <<"ϵ", <<"Ε">>>>, <<"ϸ", <<"Ϸ">>>>,
      <<"ϻ", <<"Ϻ">>>> }

TitleMap == [c \in {p[1] : p \in TitleTable} |-> (CHOOSE p \in TitleTable : p[1] = c)[2]]

\* title case of one character: a str
TitleChar(c) == IF Ch(c) \in DOMAIN TitleMap THEN TitleMap[c] ELSE <<c>>

MinOf(S) == CHOOSE x \in S : \A y \in S : x <= y
MaxOf(S) == CHOOSE x \in S : \A y \in S : y <= x

\* the final-sigma rule: s[i] is preceded by a cased character and not
\* followed by one, case-ignorable characters skipped on both sides
FinalSigma(s, i) ==
    LET before == {j \in 1..(i - 1) : ~IsCaseIgnorable(s[j])}
        after == {j \in (i + 1)..Len(s) : ~IsCaseIgnorable(s[j])}
    IN  /\ before # {}
        /\ IsCased(s[MaxOf(before)])
        /\ after = {} \/ ~IsCased(s[MinOf(after)])

\* lower case of s[i] within s
LowerAt(s, i) ==
    IF s[i] = "Σ" THEN (IF FinalSigma(s, i) THEN "ς" ELSE "σ") ELSE LowerChar(s[i])

\* str.lower()
lower(s) == [i \in 1..Len(s) |-> LowerAt(s, i)]

RECURSIVE Flatten(_)
Flatten(parts) == IF parts = <<>> THEN <<>> ELSE Head(parts) \o Flatten(Tail(parts))

\* str.title(): a character that follows a cased character is lower-cased,
\* every other character is title-cased
title(s) ==
    Flatten([i \in 1..Len(s) |->
        IF i > 1 /\ IsCased(s[i - 1]) THEN <<LowerAt(s, i)>> ELSE TitleChar(s[i])])

\* Python's `sub in s`
Contains(s, sub) ==
    \E i \in 0..(Len(s) - Len(sub)) : SubSeq(s, i + 1, i + Len(sub)) = sub

\* str(n) of a non-negative int
RECURSIVE str(_)
str(n) == IF n < 10 THEN <<Digits[n + 1]>> ELSE str(n \div 10) \o <<Digits[(n % 10) + 1]>>

-----------------------------------------------------------------------------
(* The NLP engine (spaCy), lines 17 and 33: tokens and named entities of   *)
(* the lower-cased query.  Over the queries of the model (letters, digits  *)
(* and blanks) the tokens are the blank-separated words; the entity        *)
(* recogniser is a fixed function of the text, here a gazetteer.           *)

RECURSIVE Tokens(_)
Tokens(s) ==
    IF s = <<>> THEN <<>>
    ELSE IF Head(s) = " " THEN Tokens(Tail(s))
    ELSE LET blanks == {i \in 1..Len(s) : s[i] = " "}
             n == IF blanks = {} THEN Len(s) ELSE MinOf(blanks) - 1
         IN  <<SubSeq(s, 1, n)>> \o Tokens(SubSeq(s, n + 1, Len(s)))

GpeLexicon == { <<"i", "n", "d", "i", "a">>, <<"u", "k">> }

\* [ent.text for ent in doc.ents if ent.label_ == "GPE"]
GpeEnts(doc_text) == SelectSeq(Tokens(doc_text), LAMBDA t : t \in GpeLexicon)

-----------------------------------------------------------------------------
(* extract_filters, lines 32-60.                                           *)

genres == {
    <<"a", "c", "t", "i", "o", "n">>,
    <<"c", "o", "m", "e", "d", "y">>,
    <<"d", "r", "a", "m", "a">>,
    <<"h", "o", "r", "r", "o", "r">>,
    <<"r", "o", "m", "a", "n", "c", "e">>,
    <<"t", "h", "r", "i", "l", "l", "e", "r">>,
    <<"d", "o", "c", "u", "m", "e", "n", "t", "a", "r", "y">>,
    <<"s", "c", "i", "-", "f", "i">>,
    <<"c", "r", "i", "m", "e">>,
    <<"k", "i", "d", "s">>,
    <<"f", "a", "m", "i", "l", "y">>,
    <<"a", "n", "i", "m", "e">> }

\* \b between s[i] and s[i+1] (i = 0 and i = Len(s) are the two ends)
WordAt(s, i) == i >= 1 /\ i <= Len(s) /\ IsWord(s[i])
Boundary(s, i) == WordAt(s, i) # WordAt(s, i + 1)

\* (19|20)\d{2} matches s[i..i+3]
YearDigitsAt(s, i) ==
    /\ i >= 1 /\ i + 3 <= Len(s)
    /\ SubSeq(s, i, i + 1) \in { <<"1", "9">>, <<"2", "0">> }
    /\ IsDigit(s[i + 2]) /\ IsDigit(s[i + 3])

\* a variant of YearMatchAt without the two \b
YearMatchAtNoBoundary(s, i) == YearDigitsAt(s, i)

\* \b(19|20)\d{2}\b matches s[i..i+3]
YearMatchAt(s, i) ==
    YearDigitsAt(s, i) /\ Boundary(s, i - 1) /\ Boundary(s, i + 3)

\* re.search(r"\b(19|20)\d{2}\b", s): the leftmost match, or None
year_match(s) ==
    LET hits == {i \in 1..Len(s) : YearMatchAt(s, i)}
    IN  IF hits = {} THEN None ELSE SubSeq(s, MinOf(hits), MinOf(hits) + 3)

S_movie == <<"m", "o", "v", "i", "e">>
S_show == <<"s", "h", "o", "w">>
S_series == <<"s", "e", "r", "i", "e", "s">>
S_Movie == <<"M", "o", "v", "i", "e">>
S_TV_Show == <<"T", "V", " ", "S", "h", "o", "w">>

\* lines 55-58: the keywords are looked up in user_query as it was typed
type_of(user_query) ==
    IF Contains(user_query, S_movie) THEN S_Movie
    ELSE IF Contains(user_query, S_show) \/ Contains(user_query, S_series)
         THEN S_TV_Show
         ELSE None

\* the last element of a sequence of candidates, title-cased; None if none
LastTitled(cands) == IF cands = <<>> THEN None ELSE title(cands[Len(cands)])

extract_filters(user_query) ==
    LET doc_text == lower(user_query)
        doc == Tokens(doc_text)
    IN  [ type         |-> type_of(user_query),
          country      |-> LastTitled(GpeEnts(doc_text)),
          listed_in    |-> LastTitled(SelectSeq(doc, LAMBDA t : lower(t) \in genres)),
          release_year |-> year_match(user_query) ]

-----------------------------------------------------------------------------
(* The catalog, lines 23-29.  A row holds the columns the program reads;   *)
(* release_year is an integer column.  A DataFrame selected from df is the *)
(* sequence of the positions (1-based here, 0-based in pandas) of its rows *)
(* in df, in their order.                                                  *)

Row(t, d, ty, c, l, y) ==
    [title |-> t, description |-> d, type |-> ty, country |-> c,
     listed_in |-> l, release_year |-> y]

SampleRows == {
    Row(<<"A">>, <<"a", "c", "t">>, S_Movie, <<"U", "S", "A">>,
        <<"A", "c", "t", "i", "o", "n">>, 2010),
    Row(<<"B">>, <<"d", "r", "a", "m", "a">>, S_TV_Show, <<"I", "n", "d", "i", "a">>,
        <<"D", "r", "a", "m", "a">>, 2015),
    Row(<<"C">>, <<"a", "c", "t">>, S_Movie, <<"R", "u", "s", "s", "i", "a">>,
        <<"A", "c", "t", "i", "o", "n">>, 1999) }

SeqsUpTo(S, n) == UNION { [1..k -> S] : k \in 0..n }

Catalogs == SeqsUpTo(SampleRows, MaxCatalog)

\* The embedding model (SentenceTransformer.encode, lines 20, 29, 108): a
\* fixed function from a text to a vector, here two indicator features.
encode(text) ==
    << IF InSeq("c", text) THEN 1 ELSE 0, IF InSeq("d", text) THEN 1 ELSE 0 >>

\* lines 28-29
texts(d) == [i \in 1..Len(d) |-> d[i].title \o <<" ">> \o d[i].description]
encode_all(d) == [i \in 1..Len(d) |-> encode(texts(d)[i])]

\* the module globals after loading rows d
Loaded(d) ==
    /\ df = d
    /\ embeddings = encode_all(d)
    /\ startup = [df |-> d, embeddings |-> encode_all(d)]

-----------------------------------------------------------------------------
(* filter_data, lines 63-73.                                               *)

\* Series.str.contains(pat, case=False): pat is a REGULAR EXPRESSION
\* (regex=True is the default) searched in text with re.IGNORECASE.

\* the characters with a meaning of their own in a pattern, "." aside
RegexMeta ==
    {
      "$", "(", ")", "*", "+", "?", "[", "\\", "]", "^", "{", "|",
      "}" }

\* re.IGNORECASE: two characters match when they have the same
\* representative in this table (a character not listed is its own)
FoldTable ==
    {
      <<"a", "A">>, <<"b", "B">>, <<"c", "C">>, <<"d", "D">>, <<"e", "E">>, <<"f", "F">>,
      <<"g", "G">>, <<"h", "H">>, <<"i", "I">>, <<"j", "J">>, <<"k", "K">>, <<"l", "L">>,
      <<"m", "M">>, <<"n", "N">>, <<"o", "O">>, <<"p", "P">>, <<"q", "Q">>, <<"r", "R">>,
      <<"s", "S">>, <<"t", "T">>, <<"u", "U">>, <<"v", "V">>, <<"w", "W">>, <<"x", "X">>,
      <<"y", "Y">>, <<"z", "Z">>, <<"à", "À">>, <<"á", "Á">>, <<"â", "Â">>, <<"ã", "Ã">>,
      <<"ä", "Ä">>, <<"å", "Å">>, <<"æ", "Æ">>, <<"ç", "Ç">>, <<"è", "È">>, <<"é", "É">>,
      <<"ê", "Ê">>, <<"ë", "Ë">>, <<"ì", "Ì">>, <<"í", "Í">>, <<"î", "Î">>, <<"ï", "Ï">>,
      <<"ð", "Ð">>, <<"ñ", "Ñ">>, <<"ò", "Ò">>, <<"ó", "Ó">>, <<"ô", "Ô">>, <<"õ", "Õ">>,
      <<"ö", "Ö">>, <<"ø", "Ø">>, <<"ù", "Ù">>, <<"ú", "Ú">>, <<"û", "Û">>, <<"ü", "Ü">>,
      <<"ý", "Ý">>, <<"þ", "Þ">>, <<"Μ", "µ">>, <<"ά", "Ά">>, <<"έ", "Έ">>, <<"ή", "Ή">>,
      <<"ί", "Ί">>, <<"α", "Α">>, <<"β", "Β">>, <<"γ", "Γ">>, <<"δ", "Δ">>, <<"ε", "Ε">>,
      <<"ζ", "Ζ">>, <<"η", "Η">>, <<"θ", "Θ">>, <<"ι", "Ι">>, <<"κ", "Κ">>, <<"λ", "Λ">>,
      <<"μ", "µ">>, <<"ν", "Ν">>, <<"ξ", "Ξ">>, <<"ο", "Ο">>, <<"π", "Π">>, <<"ρ", "Ρ">>,
      <<"ς", "Σ">>, <<"σ", "Σ">>, <<"τ", "Τ">>, <<"υ", "Υ">>, <<"φ", "Φ">>, <<"χ", "Χ">>,
      <<"ψ", "Ψ">>, <<"ω", "Ω">>, <<"ϊ", "Ϊ">>, <<"ϋ", "Ϋ">>, <<"ό", "Ό">>, <<"ύ", "Ύ">>,
      <<"ώ", "Ώ">>, <<"ϐ", "Β">>, <<"ϑ", "Θ">>, <<"ϕ", "Φ">>, <<"ϖ", "Π">>, <<"ϗ", "Ϗ">>,
      <<"ϙ", "Ϙ">>, <<"ϛ", "Ϛ">>, <<"ϝ", "Ϝ">>, <<"ϟ", "Ϟ">>, <<"ϡ", "Ϡ">>, <<"ϣ", "Ϣ">>,
      <<"ϥ", "Ϥ">>, <<"ϧ", "Ϧ">>, <<"ϩ", "Ϩ">>, <<"ϫ", "Ϫ">>, <<"ϭ", "Ϭ">>, <<"ϯ", "Ϯ">>,
      <<"ϰ", "Κ">>, <<"ϱ", "Ρ">>, <<"ϴ", "Θ">>, <<"ϵ", "Ε">>, <<"ϸ", "Ϸ">>, <<"Ϲ", "ϲ">>,
      <<"ϻ", "Ϻ">> }

FoldMap == [c \in {p[1] : p \in FoldTable} |-> (CHOOSE p \in FoldTable : p[1] = c)[2]]

Fold(c) == IF Ch(c) \in DOMAIN FoldMap THEN FoldMap[c] ELSE c

\* one character p of the pattern against one character t of the text: "."
\* matches any character but the newline
PatMatches(p, t) == IF p = "." THEN Ch(t) # "\n" ELSE Fold(p) = Fold(t)

\* The patterns of the model are sequences of "." and of characters that
\* stand for themselves; about a pattern that holds another construct of the
\* regular-expression syntax (a group, a class, a repetition, an anchor, an
\* escape, any of which can also make re.compile raise) the model says
\* nothing.
str_contains(text, pat) ==
    CASE \A k \in 1..Len(pat) : Ch(pat[k]) \notin RegexMeta ->
        \E i \in 0..(Len(text) - Len(pat)) :
            \A k \in 1..Len(pat) : PatMatches(pat[k], text[i + k])

Positions(d) == [i \in 1..Len(d) |-> i]

filter_data(f) ==
    LET temp0 == Positions(df)
        temp1 == IF Truthy(f.type)
                 THEN SelectSeq(temp0, LAMBDA i : lower(df[i].type) = lower(f.type))
                 ELSE temp0
        temp2 == IF Truthy(f.country)
                 THEN SelectSeq(temp1, LAMBDA i : str_contains(df[i].country, f.country))
                 ELSE temp1
        temp3 == IF Truthy(f.listed_in)
                 THEN SelectSeq(temp2, LAMBDA i : str_contains(df[i].listed_in, f.listed_in))
                 ELSE temp2
        temp4 == IF Truthy(f.release_year)
                 THEN SelectSeq(temp3, LAMBDA i : str(df[i].release_year) = f.release_year)
                 ELSE temp3
    IN  temp4

\* DataFrame.empty
empty(results) == Len(results) = 0

-----------------------------------------------------------------------------
(* The semantic fallback, lines 108-111.                                   *)

Dot(a, b) == a[1] * b[1] + a[2] * b[2]

\* Cosine similarity of two vectors as sklearn computes it (a zero vector
\* is left unnormalised, giving 0), scaled to an integer that orders the
\* pairs exactly as the cosine does: sign(a.b) * 4 * (a.b)^2 / (|a|^2 |b|^2).
\* Over vectors with components in {0, 1} the division is exact.
cosine(a, b) ==
    LET na == IF Dot(a, a) = 0 THEN 1 ELSE Dot(a, a)
        nb == IF Dot(b, b) = 0 THEN 1 ELSE Dot(b, b)
        d == Dot(a, b)
    IN  (IF d < 0 THEN -1 ELSE 1) * ((4 * d * d) \div (na * nb))

\* cosine_similarity(query_embed, embeddings)[0]
cosine_similarity(query_embed, E) == [i \in 1..Len(E) |-> cosine(query_embed, E[i])]

\* np.argsort(sims): the positions in ascending order of sims.  The default
\* kind is not a stable sort, so the order of equal keys is whatever the
\* build's sort produces: by ascending position ("stable") or not
\* ("reversed", by descending position).
Before(sims, ties, i, j) ==
    \/ sims[i] < sims[j]
    \/ sims[i] = sims[j] /\ i # j /\ (IF ties = "stable" THEN i < j ELSE i > j)

argsort(sims, ties) ==
    LET n == Len(sims)
        place(i) == 1 + Cardinality({j \in 1..n : Before(sims, ties, j, i)})
    IN  [k \in 1..n |-> CHOOSE i \in 1..n : place(i) = k]

\* the 5 of [-5:]
TopK == 5

\* s[-k:]
LastN(s, k) == SubSeq(s, IF Len(s) > k THEN Len(s) - k + 1 ELSE 1, Len(s))
\* s[::-1]
Reverse(s) == [i \in 1..Len(s) |-> s[Len(s) + 1 - i]]

top_idx(sims, ties) == Reverse(LastN(argsort(sims, ties), TopK))

Pending == [done |-> FALSE, raised |-> FALSE, value |-> <<>>]
Returned(v) == [done |-> TRUE, raised |-> FALSE, value |-> v]
Raised(e) == [done |-> TRUE, raised |-> TRUE, value |-> <<e>>]

\* lines 108-111 for one query: the rows selected, or the exception raised.
\* cosine_similarity validates its arguments and raises ValueError for a
\* matrix with no rows.
fallback(q) ==
    IF Len(embeddings) = 0
    THEN Raised("ValueError")
    ELSE Returned(top_idx(cosine_similarity(encode(q), embeddings), argsort_ties))

-----------------------------------------------------------------------------
(* build_prompt, lines 76-86.                                              *)

\* the 3 of head(3)
HeadN == 3

\* a variant of head that keeps every row
head_all(results, k) == results

\* results.head(k)
head(results, k) == SubSeq(results, 1, IF Len(results) < k THEN Len(results) ELSE k)

bullet(item) ==
    <<"- **">> \o item.title \o <<"** (">> \o str(item.release_year)
        \o <<"): ">> \o item.description \o <<"\n">>

RECURSIVE bullets(_)
bullets(items) ==
    IF items = <<>> THEN <<>> ELSE bullet(df[Head(items)]) \o bullets(Tail(items))

build_prompt(q, results) ==
    IF empty(results)
    THEN <<"User asked: '">> \o q
            \o <<"'\nThere were no matching results in the Netflix database.">>
    ELSE <<"You are a helpful Netflix assistant. User asked: \"">> \o q \o <<"\".\n">>
            \o <<"Based on the database, here are some matching titles:\n\n">>
            \o bullets(head(results, HeadN))
            \o <<"\nGive a short natural reply to the user.">>

-----------------------------------------------------------------------------
(* query_mistral, lines 89-99.  What the ollama subprocess does is an      *)
(* input: it exits with status 0, exits with a non-zero status (which      *)
(* subprocess.run reports in returncode, without raising), runs into the   *)
(* timeout (TimeoutExpired is raised) or cannot be started (OSError).      *)

\* The white space of str.strip() (the characters with str.isspace()): blank,
\* \t, \n, \r, \f, then written as the characters themselves U+000B (\v),
\* U+001C to U+001F, U+0085, U+00A0 and U+1680.  The remaining Unicode
\* spaces (U+2000 to U+200A, U+2028, U+2029, U+202F, U+205F, U+3000) cannot
\* be written in a string of this language and are outside the alphabet.
WhiteSpace ==
    {
      "\t", "\n", "", "\f", "\r", "", "", "", "", " ", "", " ",
      " " }

IsSpace(c) == Ch(c) \in WhiteSpace

\* str.strip()
strip(s) ==
    LET keep == {i \in 1..Len(s) : ~IsSpace(s[i])}
    IN  IF keep = {} THEN <<>> ELSE SubSeq(s, MinOf(keep), MaxOf(keep))

Stdouts == { <<>>, <<" ", "o", "k", "\f", "\n">> }

Outcomes ==
    [kind : {"exit0", "exit1"}, stdout : Stdouts, error : {""}]
    \cup { [kind |-> "timeout", stdout |-> <<>>,
            error |-> "Command '['ollama', 'run', 'mistral', '--', ...]' timed out after 60 seconds"],
           [kind |-> "oserror", stdout |-> <<>>,
            error |-> "[Errno 2] No such file or directory: 'ollama'"] }

\* subprocess.run raises for these outcomes
Raises(o) == o.kind \in {"timeout", "oserror"}

\* The diagnostic is the f-string of line 99; its leading warning sign is
\* left out of the first atom.
query_mistral(p, o) ==
    IF Raises(o)
    THEN <<"Mistral call failed:\n\n">> \o <<o.error>> \o <<"\n\nPrompt was:\n">> \o p
    ELSE strip(o.stdout)

-----------------------------------------------------------------------------
(* Callers, and the values of the variables a specification does not use.  *)

Procs == {"c1", "c2"}

NoOutcome == [kind |-> "none", stdout |-> <<>>, error |-> ""]

NoFilters == [type |-> None, country |-> None, listed_in |-> None, release_year |-> None]

NoCalls ==
    /\ pc = [p \in Procs |-> "idle"]
    /\ query = [p \in Procs |-> <<>>]
    /\ filters = [p \in Procs |-> NoFilters]
    /\ filtered = [p \in Procs |-> <<>>]
    /\ prompt = [p \in Procs |-> <<>>]
    /\ response = [p \in Procs |-> <<>>]
    /\ ollama = [p \in Procs |-> NoOutcome]
    /\ trace = [p \in Procs |-> <<>>]

NoCatalog ==
    /\ df = <<>>
    /\ embeddings = <<>>
    /\ argsort_ties = "stable"
    /\ startup = [df |-> <<>>, embeddings |-> <<>>]

chatVars == <<pc, query, filters, filtered, prompt, response, ollama, trace>>
globalVars == <<df, embeddings, argsort_ties, startup>>

-----------------------------------------------------------------------------
(* extract_filters applied on its own to every query of the bounded set.   *)

QueryFragments == {
    S_movie, S_Movie, S_show, S_series,
    <<"2", "0", "1", "5">>, <<"1", "9", "9", "9">>,
    <<" ">>, <<"x">>, <<"7">>,
    <<"d", "r", "a", "m", "a">>, <<"i", "n", "d", "i", "a">> }

RECURSIVE Concats(_)
Concats(k) ==
    IF k = 0 THEN { <<>> }
    ELSE LET shorter == Concats(k - 1)
         IN  shorter \cup { q \o f : q \in shorter, f \in QueryFragments }

Queries == Concats(MaxFrags)

InitExtract ==
    /\ args \in Queries
    /\ ret = Pending
    /\ NoCalls /\ NoCatalog

CallExtract ==
    /\ ~ret.done
    /\ ret' = Returned(extract_filters(args))
    /\ UNCHANGED <<args, chatVars, globalVars>>

NextExtract == CallExtract

SpecExtract == InitExtract /\ [][NextExtract]_vars

-----------------------------------------------------------------------------
(* filter_data applied on its own.                                         *)

FilterSets ==
    [ type         : {None, <<>>, S_Movie, S_movie, S_TV_Show},
      country      : {None, <<"I", "n", "d", "i", "a">>, <<"u", "s">>, <<"U", ".", "S", ".">>},
      listed_in    : {None, <<"D", "r", "a", "m", "a">>, <<"a", "c", "t">>},
      release_year : {None, <<"2", "0", "1", "5">>, <<"1", "9", "9", "9">>} ]

InitFilter ==
    /\ \E d \in SeqsUpTo(SampleRows, MaxRows) : Loaded(d)
    /\ argsort_ties = "stable"
    /\ args \in FilterSets
    /\ ret = Pending
    /\ NoCalls

CallFilter ==
    /\ ~ret.done
    /\ ret' = Returned(filter_data(args))
    /\ UNCHANGED <<args, chatVars, globalVars>>

NextFilter == CallFilter

SpecFilter == InitFilter /\ [][NextFilter]_vars

-----------------------------------------------------------------------------
(* The fallback ranking applied on its own, over catalogs large enough for *)
(* the cut at TopK rows to happen.                                         *)

RankRows ==
    { Row(<<"T">>, d, S_Movie, <<>>, <<>>, 2000) : d \in { <<"c">>, <<"d">>, <<"x">> } }

RankQueries == { <<"c">>, <<"c", "d">>, <<"x">> }

InitRank ==
    /\ \E d \in SeqsUpTo(RankRows, MaxRank) : Loaded(d)
    /\ argsort_ties \in {"stable", "reversed"}
    /\ args \in RankQueries
    /\ ret = Pending
    /\ NoCalls

CallRank ==
    /\ ~ret.done
    /\ ret' = fallback(args)
    /\ UNCHANGED <<args, chatVars, globalVars>>

NextRank == CallRank

SpecRank == InitRank /\ [][NextRank]_vars

-----------------------------------------------------------------------------
(* build_prompt applied on its own: results is any selection of distinct   *)
(* rows of df, in any order (filter_data gives them in catalog order, the  *)
(* fallback in order of similarity).                                       *)

PromptRows == { r \in SampleRows : r.title \in { <<"A">>, <<"B">> } }

Selections(n) ==
    { r \in SeqsUpTo(1..n, n) : \A i, j \in 1..Len(r) : i # j => r[i] # r[j] }

InitPrompt ==
    /\ \E d \in SeqsUpTo(PromptRows, MaxRows) : Loaded(d)
    /\ argsort_ties = "stable"
    /\ args \in [query : { <<"x">>, S_show }, results : Selections(Len(df))]
    /\ ret = Pending
    /\ NoCalls

CallPrompt ==
    /\ ~ret.done
    /\ ret' = Returned(build_prompt(args.query, args.results))
    /\ UNCHANGED <<args, chatVars, globalVars>>

NextPrompt == CallPrompt

SpecPrompt == InitPrompt /\ [][NextPrompt]_vars

-----------------------------------------------------------------------------
(* chat, lines 102-115, called by each caller again and again; the calls   *)
(* of different callers interleave statement by statement.                 *)

ChatQueries == {
    <<"2", "0", "1", "5">> \o <<" ">> \o S_show,
    <<"i", "n", "d", "i", "a">> \o <<" ">> \o <<"d", "r", "a", "m", "a">>,
    <<"x">> }

Init ==
    /\ \E d \in Catalogs : Loaded(d)
    /\ argsort_ties \in {"stable", "reversed"}
    /\ NoCalls
    /\ args = <<>>
    /\ ret = Pending

Step(p, name) == trace' = [trace EXCEPT ![p] = Append(@, name)]

\* the front end calls chat(q): a fresh frame
Call(p, q) ==
    /\ pc[p] \in {"idle", "returned", "raised"}
    /\ pc' = [pc EXCEPT ![p] = "extract"]
    /\ query' = [query EXCEPT ![p] = q]
    /\ filters' = [filters EXCEPT ![p] = NoFilters]
    /\ filtered' = [filtered EXCEPT ![p] = <<>>]
    /\ prompt' = [prompt EXCEPT ![p] = <<>>]
    /\ response' = [response EXCEPT ![p] = <<>>]
    /\ ollama' = [ollama EXCEPT ![p] = NoOutcome]
    /\ trace' = [trace EXCEPT ![p] = <<>>]
    /\ UNCHANGED <<globalVars, args, ret>>

\* line 103
Extract(p) ==
    /\ pc[p] = "extract"
    /\ filters' = [filters EXCEPT ![p] = extract_filters(query[p])]
    /\ pc' = [pc EXCEPT ![p] = "filter"]
    /\ Step(p, "extract")
    /\ UNCHANGED <<globalVars, query, filtered, prompt, response, ollama, args, ret>>

\* a variant of after_filter that ranks whatever the filter returned
after_filter_always_rank(results) == "rank"

\* line 107: where chat goes after filter_data
after_filter(results) == IF empty(results) THEN "rank" ELSE "build"

\* a variant of Filter that filters df in place instead of a copy
FilterInPlace(p) ==
    /\ pc[p] = "filter"
    /\ LET temp == filter_data(filters[p])
       IN  /\ filtered' = [filtered EXCEPT ![p] = Positions(temp)]
           /\ df' = [i \in 1..Len(temp) |-> df[temp[i]]]
           /\ embeddings' = embeddings
           /\ pc' = [pc EXCEPT ![p] = after_filter(temp)]
    /\ Step(p, "filter")
    /\ UNCHANGED <<argsort_ties, startup, query, filters, prompt, response, ollama, args, ret>>

\* lines 104 and 107
Filter(p) ==
    /\ pc[p] = "filter"
    /\ LET temp == filter_data(filters[p])
       IN  /\ filtered' = [filtered EXCEPT ![p] = temp]
           /\ pc' = [pc EXCEPT ![p] = after_filter(temp)]
    /\ Step(p, "filter")
    /\ UNCHANGED <<globalVars, query, filters, prompt, response, ollama, args, ret>>

\* lines 108-111: the exception of cosine_similarity leaves chat
Rank(p) ==
    /\ pc[p] = "rank"
    /\ LET r == fallback(query[p])
       IN  IF r.raised
           THEN /\ pc' = [pc EXCEPT ![p] = "raised"]
                /\ UNCHANGED filtered
           ELSE /\ pc' = [pc EXCEPT ![p] = "build"]
                /\ filtered' = [filtered EXCEPT ![p] = r.value]
    /\ Step(p, "rank")
    /\ UNCHANGED <<globalVars, query, filters, prompt, response, ollama, args, ret>>

\* line 113
Build(p) ==
    /\ pc[p] = "build"
    /\ prompt' = [prompt EXCEPT ![p] = build_prompt(query[p], filtered[p])]
    /\ pc' = [pc EXCEPT ![p] = "generate"]
    /\ Step(p, "build")
    /\ UNCHANGED <<globalVars, query, filters, filtered, response, ollama, args, ret>>

\* line 114
Generate(p, o) ==
    /\ pc[p] = "generate"
    /\ ollama' = [ollama EXCEPT ![p] = o]
    /\ response' = [response EXCEPT ![p] = query_mistral(prompt[p], o)]
    /\ pc' = [pc EXCEPT ![p] = "return"]
    /\ Step(p, "generate")
    /\ UNCHANGED <<globalVars, query, filters, filtered, prompt, args, ret>>

\* line 115
Return(p) ==
    /\ pc[p] = "return"
    /\ pc' = [pc EXCEPT ![p] = "returned"]
    /\ Step(p, "return")
    /\ UNCHANGED <<globalVars, query, filters, filtered, prompt, response, ollama, args, ret>>

chat(p) ==
    \/ \E q \in ChatQueries : Call(p, q)
    \/ Extract(p)
    \/ Filter(p)
    \/ Rank(p)
    \/ Build(p)
    \/ \E o \in Outcomes : Generate(p, o)
    \/ Return(p)

Next == \E p \in Procs : chat(p)

Spec == Init /\ [][Next]_vars

-----------------------------------------------------------------------------
(* Properties of chat (specification Spec).                                *)

IsPrefix(s, t) == Len(s) <= Len(t) /\ SubSeq(t, 1, Len(s)) = s

StepsDirect == <<"extract", "filter", "build", "generate", "return">>
StepsFallback == <<"extract", "filter", "rank", "build", "generate", "return">>

Did(p, name) == InSeq(name, trace[p])

\* C1: in every invocation the steps occur in the order extract, filter,
\* (rank), build, generate, return; the ranking step runs if and only if
\* filter_data returned no row; without it the prompt is built from exactly
\* the filtered rows, with it from the ranked rows.
C1_FallbackIffFilterEmpty ==
    \A p \in Procs :
        /\ IsPrefix(trace[p], StepsDirect) \/ IsPrefix(trace[p], StepsFallback)
        /\ Did(p, "filter") =>
              ((Did(p, "rank") \/ pc[p] = "rank") <=> empty(filter_data(filters[p])))
        /\ Did(p, "filter") /\ ~Did(p, "rank") /\ pc[p] # "rank" =>
              filtered[p] = filter_data(filters[p])
        /\ Did(p, "rank") /\ pc[p] # "raised" =>
              filtered[p] = fallback(query[p]).value
        /\ Did(p, "build") => prompt[p] = build_prompt(query[p], filtered[p])

\* one caller has returned after the fallback, the other without it
C1_Witness ==
    \E p, r \in Procs :
        /\ pc[p] = "returned" /\ Did(p, "rank")
        /\ pc[r] = "returned" /\ ~Did(r, "rank") /\ ~empty(filtered[r])

IsDiagnostic(resp, o, pr) ==
    /\ InSeq("Mistral call failed:\n\n", resp)
    /\ InSeq(o.error, resp)
    /\ Contains(resp, pr)

\* C2: whatever way the generator fails (timeout, non-zero exit status,
\* exception), chat returns a diagnostic holding the error and the prompt;
\* the generator's output is returned only on success.
C2_EveryFailureYieldsDiagnostic ==
    \A p \in Procs :
        pc[p] \in {"return", "returned"} =>
            IF ollama[p].kind = "exit0"
            THEN ~InSeq("Mistral call failed:\n\n", response[p])
            ELSE IsDiagnostic(response[p], ollama[p], prompt[p])

PromptBuilt(p) == pc[p] \in {"generate", "return", "returned"}

\* C9: the catalog and the embedding matrix keep their startup values
\* through every interleaving of invocations, and the prompt built for a
\* query does not depend on what else ran: two invocations of the same
\* query, whenever they run, build the same prompt.
C9_CatalogFixedCallsIndependent ==
    /\ df = startup.df
    /\ embeddings = startup.embeddings
    /\ \A p, r \in Procs :
          PromptBuilt(p) /\ PromptBuilt(r) /\ query[p] = query[r] =>
              prompt[p] = prompt[r]

\* two callers ran the same query over a non-empty catalog, one call got a
\* failing generator, and both used the fallback
C9_Witness ==
    \E p, r \in Procs :
        /\ p # r /\ pc[p] = "returned" /\ PromptBuilt(r)
        /\ query[p] = query[r] /\ Did(p, "rank") /\ Len(df) > 0
        /\ Raises(ollama[p])

\* C10: with an empty catalog chat does not fail: no exception leaves it.
C10_EmptyCatalogStillReplies ==
    \A p \in Procs : Len(df) = 0 => pc[p] # "raised"

-----------------------------------------------------------------------------
(* Properties of extract_filters (specification SpecExtract).              *)

\* C3: type is decided on the lower-cased query: Movie if it contains
\* "movie", else TV Show if it contains "show" or "series", else
\* unconstrained; the letter case of the query does not matter.
C3_TypeFromLowercasedQuery ==
    ret.done =>
        ret.value.type =
            IF Contains(lower(args), S_movie) THEN S_Movie
            ELSE IF Contains(lower(args), S_show) \/ Contains(lower(args), S_series)
                 THEN S_TV_Show
                 ELSE None

LeftFree(q, i) == i = 1 \/ ~IsWord(q[i - 1])
RightFree(q, i) == i + 3 = Len(q) \/ ~IsWord(q[i + 4])

\* C4 as stated: release_year is the first 4-digit substring 1900..2099 of
\* the query whatever stands next to it, and None if there is none.
C4_YearAnySubstring ==
    ret.done =>
        LET at == {i \in 1..Len(args) : YearDigitsAt(args, i)}
        IN  ret.value.release_year =
                IF at = {} THEN None ELSE SubSeq(args, MinOf(at), MinOf(at) + 3)

\* C4 amended: release_year is the first 4-digit substring 1900..2099 of
\* the query that has no letter, digit or underscore directly before or
\* after it, and None if the query has no such substring.
C4_YearDelimitedToken ==
    ret.done =>
        LET at == {i \in 1..Len(args) :
                      YearDigitsAt(args, i) /\ LeftFree(args, i) /\ RightFree(args, i)}
        IN  ret.value.release_year =
                IF at = {} THEN None ELSE SubSeq(args, MinOf(at), MinOf(at) + 3)

\* a year glued to a word character comes first, a free-standing year
\* follows, and the free-standing one was extracted
C4_Witness ==
    /\ ret.done
    /\ \E i, j \in 1..Len(args) :
          /\ i < j
          /\ YearDigitsAt(args, i) /\ ~LeftFree(args, i)
          /\ YearDigitsAt(args, j) /\ LeftFree(args, j) /\ RightFree(args, j)
          /\ ret.value.release_year = SubSeq(args, j, j + 3)

-----------------------------------------------------------------------------
(* Properties of filter_data (specification SpecFilter).                   *)

Substring(text, sub) == Contains(lower(text), lower(sub))

Satisfies(i, f) ==
    /\ Truthy(f.type) => lower(df[i].type) = lower(f.type)
    /\ Truthy(f.country) => Substring(df[i].country, f.country)
    /\ Truthy(f.listed_in) => Substring(df[i].listed_in, f.listed_in)
    /\ Truthy(f.release_year) => str(df[i].release_year) = f.release_year

Increasing(r) == \A i, j \in 1..Len(r) : i < j => r[i] < r[j]
Range(r) == {r[i] : i \in 1..Len(r)}

\* C5: filter_data returns exactly the rows that satisfy every active
\* predicate (type: equality ignoring case; country, genre: substring
\* ignoring case; release_year: equality of strings), in catalog order and
\* without duplicates.
C5_ExactlyTheMatchingRows ==
    ret.done =>
        /\ Increasing(ret.value)
        /\ Range(ret.value) = {i \in 1..Len(df) : Satisfies(i, args)}

-----------------------------------------------------------------------------
(* Properties of the fallback ranking (specification SpecRank).            *)

Min2(a, b) == IF a < b THEN a ELSE b

SimsOf(q) == cosine_similarity(encode(q), embeddings)

\* C6: over a catalog of n rows the ranking returns exactly min(5, n)
\* distinct rows, in order of non-increasing similarity, and no row left
\* out is strictly more similar than a row returned.
C6_TopFiveBySimilarity ==
    ret.done =>
        /\ ~ret.raised
        /\ LET r == ret.value
               sims == SimsOf(args)
           IN  /\ Len(r) = Min2(TopK, Len(df))
               /\ Range(r) \subseteq 1..Len(df)
               /\ Cardinality(Range(r)) = Len(r)
               /\ \A i, j \in 1..Len(r) : i < j => sims[r[i]] >= sims[r[j]]
               /\ \A i \in Range(r) : \A o \in (1..Len(df)) \ Range(r) :
                      sims[o] <= sims[i]

\* C7: rows of equal similarity are returned in ascending catalog order,
\* and at the cut it is the row of lower index that is kept.
C7_TiesByAscendingIndex ==
    ret.done /\ ~ret.raised =>
        LET r == ret.value
            sims == SimsOf(args)
        IN  /\ \A i, j \in 1..Len(r) :
                  i < j /\ sims[r[i]] = sims[r[j]] => r[i] < r[j]
            /\ \A i \in Range(r) : \A o \in (1..Len(df)) \ Range(r) :
                  sims[o] = sims[i] => i < o

-----------------------------------------------------------------------------
(* Properties of build_prompt (specification SpecPrompt).                  *)

BulletsAt(p) == {i \in 1..Len(p) : p[i] = "- **"}

\* the position of the j-th bullet of p
NthBullet(p, j) ==
    CHOOSE i \in BulletsAt(p) : Cardinality({b \in BulletsAt(p) : b <= i}) = j

StartsAt(p, i, piece) == SubSeq(p, i, i + Len(piece) - 1) = piece

\* C8: for no results the prompt restates the query, says that nothing
\* matched and has no bullet; for k >= 1 results it has exactly min(3, k)
\* bullets, the first min(3, k) results in their order, each showing that
\* row's title, release_year and description.
C8_PromptBullets ==
    ret.done =>
        LET p == ret.value
            r == args.results
            k == Len(r)
        IN  /\ Contains(p, args.query)
            /\ k = 0 =>
                  /\ BulletsAt(p) = {}
                  /\ InSeq("'\nThere were no matching results in the Netflix database.", p)
            /\ k >= 1 =>
                  /\ Cardinality(BulletsAt(p)) = Min2(3, k)
                  /\ \A j \in 1..Min2(3, k) :
                        StartsAt(p, NthBullet(p, j),
                                 <<"- **">> \o df[r[j]].title \o <<"** (">>
                                    \o str(df[r[j]].release_year) \o <<"): ">>
                                    \o df[r[j]].description \o <<"\n">>)

\* more than three results, not in catalog order
C8_Witness ==
    /\ ret.done
    /\ Len(args.results) > 3
    /\ ~Increasing(args.results)
    /\ df[args.results[1]] # df[args.results[2]]

=============================================================================
